---- MODULE Spec2Model ----
(***************************************************************************)
(* Model of the FactoryLint naming-convention linter (src/linter.py).      *)
(*                                                                         *)
(* Python strings are modelled as sequences of one-character strings, so   *)
(* that startswith/endswith/split/join/lower and the regular expressions   *)
(* are computed character by character as the code computes them.          *)
(* A call either returns a value or raises; a result is a record           *)
(*   [raised |-> FALSE, value |-> v]  or  [raised |-> TRUE, exc |-> name]. *)
(***************************************************************************)
EXTENDS Integers, Sequences, FiniteSets, TLC

VARIABLES ABBREVIATIONS, pc, call, result, stdout

vars == <<ABBREVIATIONS, pc, call, result, stdout>>

(***************************************************************************)
(* Bounds of the input space.                                              *)
(***************************************************************************)
\* largest number of '-'-delimited tokens of a trigger name
MaxTokens == 4
\* largest number of '_'-delimited tokens of a dataset name
MaxParts == 5

(***************************************************************************)
(* Characters and the str methods the linter uses.                         *)
(***************************************************************************)
UpperSeq == <<"A","B","C","D","E","F","G","H","I","J","K","L","M",
              "N","O","P","Q","R","S","T","U","V","W","X","Y","Z">>
LowerSeq == <<"a","b","c","d","e","f","g","h","i","j","k","l","m",
              "n","o","p","q","r","s","t","u","v","w","x","y","z">>
Digits == {"0","1","2","3","4","5","6","7","8","9"}
Uppers == {UpperSeq[i] : i \in 1..26}
Lowers == {LowerSeq[i] : i \in 1..26}
NL == "\n"

\* \d
IsDigit(c) == c \in Digits
\* [A-Z0-9_]
IsUpperWord(c) == c \in Uppers \cup Digits \cup {"_"}
\* [A-Za-z0-9_]
IsWord(c) == c \in Uppers \cup Lowers \cup Digits \cup {"_"}

\* str.lower() on one character
LowerChar(c) ==
    IF c \in Uppers THEN LowerSeq[CHOOSE i \in 1..26 : UpperSeq[i] = c] ELSE c

\* a lookup that compares the type as written, without .lower()
Lower_skipped(s) == s

\* str.lower()
Lower(s) == [i \in 1..Len(s) |-> LowerChar(s[i])]

\* str.startswith(p)
StartsWith(s, p) == Len(p) <= Len(s) /\ SubSeq(s, 1, Len(p)) = p

\* str.endswith(p)
EndsWith(s, p) == Len(p) <= Len(s) /\ SubSeq(s, Len(s) - Len(p) + 1, Len(s)) = p

\* `p in s` for two strings
Contains(s, p) == \E i \in 0..(Len(s) - Len(p)) : SubSeq(s, i + 1, i + Len(p)) = p

\* str.split(sep) for a one-character separator: always at least one token
RECURSIVE Split(_, _)
Split(s, sep) ==
    IF \A i \in 1..Len(s) : s[i] # sep
    THEN <<s>>
    ELSE LET k == CHOOSE i \in 1..Len(s) :
                     s[i] = sep /\ \A j \in 1..(i - 1) : s[j] # sep
         IN  <<SubSeq(s, 1, k - 1)>> \o Split(SubSeq(s, k + 1, Len(s)), sep)

\* sep.join(parts)
RECURSIVE Join(_, _)
Join(parts, sep) ==
    IF Len(parts) = 0 THEN <<>>
    ELSE IF Len(parts) = 1 THEN parts[1]
    ELSE parts[1] \o <<sep>> \o Join(Tail(parts), sep)

\* The strings at whose end a Python `$` can match: the end of the string,
\* or just before a newline that is the last character.
DollarCores(s) ==
    {s} \cup (IF Len(s) > 0 /\ s[Len(s)] = NL THEN {SubSeq(s, 1, Len(s) - 1)} ELSE {})

Returned(v) == [raised |-> FALSE, value |-> v]
Raised(e) == [raised |-> TRUE, exc |-> e]
Violation(rule, arg) == [rule |-> rule, arg |-> arg]


(***************************************************************************)
(* String literals of the source.                                          *)
(***************************************************************************)
S_LS_ == <<"L","S","_">>
S_DS_ == <<"D","S","_">>
S_pipelines == <<"/","p","i","p","e","l","i","n","e","s">>
S_datasets == <<"/","d","a","t","a","s","e","t","s">>
S_linkedservices == <<"/","l","i","n","k","e","d","s","e","r","v","i","c","e","s">>
S_triggers == <<"/","t","r","i","g","g","e","r","s">>
K_activities == <<"a","c","t","i","v","i","t","i","e","s">>
K_typeProperties == <<"t","y","p","e","P","r","o","p","e","r","t","i","e","s">>
K_linkedServiceName == <<"l","i","n","k","e","d","S","e","r","v","i","c","e","N","a","m","e">>
K_connectVia == <<"c","o","n","n","e","c","t","V","i","a">>
K_type == <<"t","y","p","e">>
K_pipelines == <<"p","i","p","e","l","i","n","e","s">>
S_Master == <<"M","a","s","t","e","r">>
S_00_Master == <<"_","0","0","_","M","a","s","t","e","r">>
S_Daily == <<"D","a","i","l","y">>
S_Hourly == <<"H","o","u","r","l","y">>
S_Weekly == <<"W","e","e","k","l","y">>
S_Monthly == <<"M","o","n","t","h","l","y">>
S_File == <<"F","i","l","e">>
S_ScheduleTrigger == <<"S","c","h","e","d","u","l","e","T","r","i","g","g","e","r">>
S_BlobEventsTrigger == <<"B","l","o","b","E","v","e","n","t","s","T","r","i","g","g","e","r">>
S_DelimitedText == <<"D","e","l","i","m","i","t","e","d","T","e","x","t">>
S_AzureSqlTable == <<"A","z","u","r","e","S","q","l","T","a","b","l","e">>
S_CSV == <<"C","S","V">>
S_TABLE == <<"T","A","B","L","E">>

\* FORMAT_MAPPING as the set of its (key, value) items
FORMAT_MAPPING ==
    { <<S_DelimitedText, S_CSV>>,
      <<S_AzureSqlTable, S_TABLE>>,
      <<<<"P","a","r","q","u","e","t">>, <<"P","A","R","Q","U","E","T">>>>,
      <<<<"J","s","o","n">>, <<"J","S","O","N">>>>,
      <<<<"E","x","c","e","l">>, <<"E","X","C","E","L">>>>,
      <<<<"A","v","r","o">>, <<"A","V","R","O">>>>,
      <<<<"B","i","n","a","r","y">>, <<"B","I","N">>>>,
      <<<<"X","M","L">>, <<"X","M","L">>>>,
      <<<<"O","r","c">>, <<"O","R","C">>>> }

\* dict.get(key): [found |-> FALSE] stands for None
DictGet(items, key) ==
    IF \E it \in items : it[1] = key
    THEN [found |-> TRUE, value |-> (CHOOSE it \in items : it[1] = key)[2]]
    ELSE [found |-> FALSE]

(***************************************************************************)
(* Rule evaluators.                                                        *)
(***************************************************************************)
lint_linked_service(ls_name) ==
    LET e1 == IF ~StartsWith(ls_name, S_LS_)
              THEN <<Violation("ls_prefix", <<>>)>> ELSE <<>>
        e2 == IF ~(\E prefix \in ABBREVIATIONS.LinkedService : StartsWith(ls_name, prefix))
              THEN <<Violation("ls_known_prefix", ls_name)>> ELSE <<>>
    IN  e1 \o e2

\* "_".join(ds_name.split("_")[2:-1])
detail_part(ds_name) ==
    LET toks == Split(ds_name, "_")
    IN  Join(SubSeq(toks, 3, Len(toks) - 1), "_")

\* re.match(r"^[A-Z0-9_]+$", s)
MatchDetail(s) ==
    \E core \in DollarCores(s) :
        Len(core) >= 1 /\ \A i \in 1..Len(core) : IsUpperWord(core[i])

lint_dataset(ds_name, dataset_type) ==
    LET expected_format == DictGet(FORMAT_MAPPING, dataset_type)
        e1 == IF ~StartsWith(ds_name, S_DS_)
              THEN <<Violation("ds_prefix", <<>>)>> ELSE <<>>
        e2 == IF expected_format.found /\ Len(expected_format.value) > 0
                 /\ ~EndsWith(ds_name, <<"_">> \o expected_format.value)
              THEN <<Violation("ds_suffix", ds_name)>> ELSE <<>>
        e3 == IF ~MatchDetail(detail_part(ds_name))
              THEN <<Violation("ds_detail", detail_part(ds_name))>> ELSE <<>>
    IN  e1 \o e2 \o e3

\* _[A-Za-z0-9_]+
MatchSegment(s) ==
    Len(s) >= 2 /\ s[1] = "_" /\ \A i \in 2..Len(s) : IsWord(s[i])

\* (_[A-Za-z0-9_]+)?_[A-Za-z0-9_]+$ on the rest of the name
MatchSegments(rest) ==
    \E core \in DollarCores(rest) :
        \/ MatchSegment(core)
        \/ \E k \in 2..(Len(core) - 2) :
              /\ MatchSegment(SubSeq(core, 1, k))
              /\ MatchSegment(SubSeq(core, k + 1, Len(core)))

\* re.match(master_pattern, pipeline_name)
MatchMaster(pipeline_name) ==
    /\ Len(pipeline_name) >= 13
    /\ \A i \in 1..3 : IsDigit(pipeline_name[i])
    /\ SubSeq(pipeline_name, 4, 13) = S_00_Master
    /\ MatchSegments(SubSeq(pipeline_name, 14, Len(pipeline_name)))

\* sub_pattern with the numbering group written as \d{2}
MatchSub_any_group(pipeline_name) ==
    /\ Len(pipeline_name) >= 6
    /\ \A i \in 1..3 : IsDigit(pipeline_name[i])
    /\ pipeline_name[4] = "_"
    /\ pipeline_name[5] \in Digits /\ pipeline_name[6] \in Digits
    /\ MatchSegments(SubSeq(pipeline_name, 7, Len(pipeline_name)))

\* re.match(sub_pattern, pipeline_name)
MatchSub(pipeline_name) ==
    /\ Len(pipeline_name) >= 6
    /\ \A i \in 1..3 : IsDigit(pipeline_name[i])
    /\ pipeline_name[4] = "_"
    /\ \/ pipeline_name[5] = "0" /\ pipeline_name[6] \in Digits \ {"0"}
       \/ pipeline_name[5] \in Digits \ {"0"} /\ pipeline_name[6] \in Digits
    /\ MatchSegments(SubSeq(pipeline_name, 7, Len(pipeline_name)))

lint_pipeline(pipeline_name) ==
    IF MatchMaster(pipeline_name) THEN <<>>
    ELSE IF MatchSub(pipeline_name)
         THEN IF Contains(pipeline_name, S_Master)
              THEN <<Violation("sub_has_master", pipeline_name)>> ELSE <<>>
         ELSE <<Violation("pipeline_convention", pipeline_name)>>

\* the startswith tuple with one entry forgotten
FrequencyPrefixes_no_monthly ==
    {S_Daily \o <<"-">>, S_Hourly \o <<"-">>, S_Weekly \o <<"-">>}

\* ("Daily-", "Hourly-", "Weekly-", "Monthly-")
FrequencyPrefixes ==
    {S_Daily \o <<"-">>, S_Hourly \o <<"-">>, S_Weekly \o <<"-">>, S_Monthly \o <<"-">>}

\* (Daily|Hourly|Weekly|Monthly|File)
PatternHeads == {S_Daily, S_Hourly, S_Weekly, S_Monthly, S_File}

\* the pattern with the project group made optional
MatchTriggerPattern_optional_project(project_name, pipeline_name, s) ==
    \E core \in DollarCores(s) :
        \E head \in PatternHeads :
            \/ core = head \o <<"-">> \o project_name \o <<"-">> \o pipeline_name
            \/ core = head \o <<"-">> \o pipeline_name

\* the pattern without File in its alternation
MatchTriggerPattern_no_file(project_name, pipeline_name, s) ==
    \E core \in DollarCores(s) :
        \E head \in PatternHeads \ {S_File} :
            core = head \o <<"-">> \o project_name \o <<"-">> \o pipeline_name

\* re.match(rf"^(Daily|Hourly|Weekly|Monthly|File)-{project_name}-{pipeline_name}$", s)
\* for tokens without regular-expression metacharacters, which the pattern
\* then matches literally
MatchTriggerPattern(project_name, pipeline_name, s) ==
    \E core \in DollarCores(s) :
        \E head \in PatternHeads :
            core = head \o <<"-">> \o project_name \o <<"-">> \o pipeline_name

\* lint_trigger whose except branch returns the formatting error alone
lint_trigger_fresh_list(trigger_name, trigger_type) ==
    LET e1 == IF trigger_type = S_ScheduleTrigger
                 /\ ~(\E f \in FrequencyPrefixes : StartsWith(trigger_name, f))
              THEN <<Violation("trigger_frequency", trigger_name)>> ELSE <<>>
        e2 == IF trigger_type = S_BlobEventsTrigger
                 /\ ~StartsWith(trigger_name, S_File \o <<"-">>)
              THEN <<Violation("trigger_file", trigger_name)>> ELSE <<>>
        toks == Split(trigger_name, "-")
    IN  IF Len(toks) < 2
        THEN <<Violation("trigger_not_formatted", trigger_name)>>
        ELSE IF ~MatchTriggerPattern(toks[2], toks[Len(toks)], trigger_name)
             THEN e1 \o e2 \o <<Violation("trigger_pattern", trigger_name)>>
             ELSE e1 \o e2

lint_trigger(trigger_name, trigger_type) ==
    LET e1 == IF trigger_type = S_ScheduleTrigger
                 /\ ~(\E f \in FrequencyPrefixes : StartsWith(trigger_name, f))
              THEN <<Violation("trigger_frequency", trigger_name)>> ELSE <<>>
        e2 == IF trigger_type = S_BlobEventsTrigger
                 /\ ~StartsWith(trigger_name, S_File \o <<"-">>)
              THEN <<Violation("trigger_file", trigger_name)>> ELSE <<>>
        toks == Split(trigger_name, "-")
    IN  IF Len(toks) < 2
        THEN \* split('-')[1] raises IndexError, caught
             e1 \o e2 \o <<Violation("trigger_not_formatted", trigger_name)>>
        ELSE LET project_name == toks[2]
                 pipeline_name == toks[Len(toks)]
             IN  IF ~MatchTriggerPattern(project_name, pipeline_name, trigger_name)
                 THEN e1 \o e2 \o <<Violation("trigger_pattern", trigger_name)>>
                 ELSE e1 \o e2

lint_key_vault(kv_name, kv_type) ==
    IF Lower(kv_type) \notin {<<"u","s","e","r","n","a","m","e">>,
                              <<"p","a","s","s","w","o","r","d">>,
                              <<"u","r","l">>}
    THEN <<Violation("kv_type", kv_name)>> ELSE <<>>

(***************************************************************************)
(* JSON values of a resource document.  A field is absent, a string, or a  *)
(* value of another shape: null (a scalar that is no container), a list of *)
(* strings, or an object given by its keys and the value of its "type".    *)
(***************************************************************************)
Absent == [kind |-> "absent"]
Null == [kind |-> "null"]
Str(s) == [kind |-> "str", s |-> s]
List(items) == [kind |-> "list", items |-> items]
Dict(keys, type) == [kind |-> "dict", keys |-> keys, type |-> type]
EmptyDict == [kind |-> "dict", keys |-> {}, type |-> <<>>]

ADFResourceType == {"Pipeline", "Dataset", "LinkedService", "Trigger", "Unknown"}

\* `key in props` for a value that supports it
In(key, props) ==
    CASE props.kind = "dict" -> key \in props.keys
      [] props.kind = "list" -> key \in props.items
      [] props.kind = "str" -> Contains(props.s, key)

identify_adf_resource(resource_json) ==
    IF resource_json.type.kind \notin {"absent", "str"}
    THEN Raised("AttributeError")     \* .lower() of a value that is no str
    ELSE
    LET top_type == IF resource_json.type.kind = "absent"
                    THEN <<>> ELSE Lower(resource_json.type.s)
        props == IF resource_json.properties.kind = "absent"
                 THEN EmptyDict ELSE resource_json.properties
    IN  IF EndsWith(top_type, S_pipelines) THEN Returned("Pipeline")
        ELSE IF EndsWith(top_type, S_datasets) THEN Returned("Dataset")
        ELSE IF EndsWith(top_type, S_linkedservices) THEN Returned("LinkedService")
        ELSE IF EndsWith(top_type, S_triggers) THEN Returned("Trigger")
        ELSE IF props.kind = "null"
             THEN Raised("TypeError")  \* `in` on a value that is no container
        ELSE IF In(K_activities, props) THEN Returned("Pipeline")
        ELSE IF In(K_typeProperties, props) /\ In(K_linkedServiceName, props)
             THEN Returned("Dataset")
        ELSE IF In(K_connectVia, props) /\ In(K_type, props)
             THEN Returned("LinkedService")
        ELSE IF In(K_pipelines, props) /\ In(K_type, props)
             THEN Returned("Trigger")
        ELSE Returned("Unknown")

\* resource_json["name"]
GetName(resource_json) ==
    IF resource_json.name.kind = "absent"
    THEN Raised("KeyError") ELSE Returned(resource_json.name.s)

\* resource_json["properties"]["type"]
GetPropertiesType(resource_json) ==
    LET props == resource_json.properties
    IN  IF props.kind = "absent" THEN Raised("KeyError")
        ELSE IF props.kind # "dict" THEN Raised("TypeError")
        ELSE IF K_type \notin props.keys THEN Raised("KeyError")
        ELSE Returned(props.type)

lint_resource(resource_json) ==
    LET resource_type == identify_adf_resource(resource_json)
        name == GetName(resource_json)
        ptype == GetPropertiesType(resource_json)
    IN  IF resource_type.raised THEN resource_type
        ELSE CASE resource_type.value = "Pipeline" ->
                    IF name.raised THEN name
                    ELSE Returned(lint_pipeline(name.value))
               [] resource_type.value = "Dataset" ->
                    IF name.raised THEN name
                    ELSE IF ptype.raised THEN ptype
                    ELSE Returned(lint_dataset(name.value, ptype.value))
               [] resource_type.value = "LinkedService" ->
                    IF name.raised THEN name
                    ELSE Returned(lint_linked_service(name.value))
               [] resource_type.value = "Trigger" ->
                    IF name.raised THEN name
                    ELSE IF ptype.raised THEN ptype
                    ELSE Returned(lint_trigger(name.value, ptype.value))
               [] OTHER ->
                    Returned(<<Violation("unknown_resource",
                                         IF name.raised THEN <<"N","/","A">>
                                         ELSE name.value)>>)

(***************************************************************************)
(* Inputs.                                                                 *)
(***************************************************************************)
\* all concatenations of one element of each set of a sequence of sets
RECURSIVE Concats(_)
Concats(sets) ==
    IF Len(sets) = 0 THEN {<<>>}
    ELSE {h \o r : h \in sets[1], r \in Concats(Tail(sets))}

\* all sequences of 1..n tokens
RECURSIVE TokenSeqs(_, _)
TokenSeqs(tokens, n) ==
    IF n = 0 THEN {}
    ELSE {<<tk>> : tk \in tokens}
         \cup {Append(ts, tk) : ts \in TokenSeqs(tokens, n - 1), tk \in tokens}

S_ADLS == <<"A","D","L","S">>
S_LS_ADLS == <<"L","S","_","A","D","L","S">>
S_SQL == <<"S","Q","L">>
S_Example_LS == <<"L","S","_","A","D","L","S","_","L","Z","_","O","N","P","R","E","M","I","R">>
S_Example_DS == <<"D","S","_","S","Q","L","_","C","U","S","T","O","M","E","R","S","_","C","S","V">>

\* contents of system_abbreviations.json
AbbreviationTables ==
    { [LinkedService |-> {S_SQL} \cup ls, Dataset |-> {S_SQL}] :
        ls \in SUBSET {S_ADLS, S_LS_ADLS} }

LinkedServiceNames ==
    { S_Example_LS,
      <<"A","D","L","S","_","L","Z">>,
      <<"L","S","_","S","Q","L","_","D","W","H">>,
      <<"S","Q","L","_","D","W","H">>,
      <<"l","s","_","a","d","l","s">>,
      <<"L","S","_">>,
      <<"L","S","_","X","Y","Z">>,
      <<>> }

PipelineNames ==
    Concats(<< { <<"0","0","1">>,
               <<"1","2">>,
               <<"1","2","3","4">>,
               <<"a","0","1">> },
               { <<"_","0","0">>,
               <<"_","0","1">>,
               <<"_","1","0">>,
               <<"_","9","9">>,
               <<"_","0">>,
               <<"_","1","0","0">>,
               <<"0","0">> },
               { <<>>,
               <<"_","M","a","s","t","e","r">>,
               <<"M","a","s","t","e","r">>,
               <<"_","m","a","s","t","e","r">> },
               { <<>>,
               <<"_","X">>,
               <<"_","H","i","l","a","n","_","a">>,
               <<"_","X","-","y">>,
               <<"_">>,
               <<"_","X","\n">>,
               <<"_","a","_","M","a","s","t","e","r">> } >>)

DatasetTokens == { <<"D","S">>,
                 <<"S","Q","L">>,
                 <<"C","U","S","T","O","M","E","R","S">>,
                 <<"C","S","V">>,
                 <<"a">>,
                 <<"A","\n">> }
DatasetNames == {Join(ts, "_") : ts \in TokenSeqs(DatasetTokens, MaxParts)}
DatasetTypes == {S_DelimitedText, <<"C","u","s","t","o","m">>}

\* letters and digits only
TriggerTokens == { <<"D","a","i","l","y">>,
                 <<"M","o","n","t","h","l","y">>,
                 <<"F","i","l","e">>,
                 <<"S","A","P","B","W">>,
                 <<"h","i","l","a","n">>,
                 <<>> }
TriggerNames == {Join(ts, "-") : ts \in TokenSeqs(TriggerTokens, MaxTokens)}
TriggerTypes == {S_ScheduleTrigger, S_BlobEventsTrigger, <<"T","u","m","b","l","i","n","g","W","i","n","d","o","w","T","r","i","g","g","e","r">>}

KeyVaultNames == { <<"D","a","t","a","S","o","u","r","c","e","-","u","s","e","r","n","a","m","e">> }
KeyVaultTypes == { <<"u","s","e","r","n","a","m","e">>,
                 <<"U","s","e","r","n","a","m","e">>,
                 <<"P","A","S","S","W","O","R","D">>,
                 <<"u","r","l">>,
                 <<"U","r","l">>,
                 <<"t","o","k","e","n">>,
                 <<>> }

TypeStrings ==
    Concats(<< { <<>>,
               <<"M","i","c","r","o","s","o","f","t",".","D","a","t","a","F","a","c","t","o","r","y","/","f","a","c","t","o","r","i","e","s">> },
               { <<"/","p","i","p","e","l","i","n","e","s">>,
               <<"/","d","a","t","a","s","e","t","s">>,
               <<"/","l","i","n","k","e","d","s","e","r","v","i","c","e","s">>,
               <<"/","t","r","i","g","g","e","r","s">>,
               <<"/","P","i","p","e","l","i","n","e","s">>,
               <<"/","D","A","T","A","S","E","T","S">>,
               <<"/","l","i","n","k","e","d","S","e","r","v","i","c","e","s">>,
               <<"/","T","r","i","g","g","e","r","s">>,
               <<"p","i","p","e","l","i","n","e","s">>,
               <<"/","p","i","p","e","l","i","n","e">>,
               <<"/","p","i","p","e","l","i","n","e","s","/","x">>,
               <<>> } >>)
TypeValues == {Absent, Null} \cup {Str(s) : s \in TypeStrings}

NameValues == {Absent, Str(<<"0","0","1","_","0","1","_","H","i","l","a","n">>), Str(<<"D","a","i","l","y","-","S","A","P","B","W","-","h","i","l","a","n">>), Str(S_Example_DS)}

PropertyKeys == {K_activities, K_typeProperties, K_linkedServiceName,
                 K_connectVia, K_type, K_pipelines}
PropertyTypes == {S_ScheduleTrigger, S_DelimitedText}
PropertiesValues ==
    {Absent, Null}
    \cup {Str(s) : s \in { <<"a","c","t","i","v","i","t","i","e","s">>,
                        <<"t","y","p","e">> }}
    \cup {List(items) : items \in {{}, {K_activities}, {K_connectVia, K_type}}}
    \cup {Dict(keys, <<>>) : keys \in SUBSET (PropertyKeys \ {K_type})}
    \cup {Dict(keys \cup {K_type}, ty) :
            keys \in SUBSET (PropertyKeys \ {K_type}), ty \in PropertyTypes}

Documents ==
    {[type |-> ty, name |-> nm, properties |-> pr] :
        ty \in TypeValues, nm \in NameValues, pr \in PropertiesValues}

(***************************************************************************)
(* State machine: the tables are loaded at import; then one call is made   *)
(* and returns or raises.                                                  *)
(***************************************************************************)
Init ==
    /\ ABBREVIATIONS \in AbbreviationTables
    /\ pc = "idle"
    /\ call = [fn |-> "none", args |-> <<>>]
    /\ result = Returned(<<>>)
    /\ stdout = <<>>

Finish(fn, args, res) ==
    /\ pc' = "done"
    /\ call' = [fn |-> fn, args |-> args]
    /\ result' = res
    /\ UNCHANGED ABBREVIATIONS

LintLinkedService ==
    /\ pc = "idle"
    /\ \E ls_name \in LinkedServiceNames :
        /\ Finish("lint_linked_service", <<ls_name>>,
                  Returned(lint_linked_service(ls_name)))
        /\ UNCHANGED stdout

LintDataset ==
    /\ pc = "idle"
    /\ \E ds_name \in DatasetNames, dataset_type \in DatasetTypes :
        /\ Finish("lint_dataset", <<ds_name, dataset_type>>,
                  Returned(lint_dataset(ds_name, dataset_type)))
        /\ UNCHANGED stdout

LintPipeline ==
    /\ pc = "idle"
    /\ \E pipeline_name \in PipelineNames :
        /\ Finish("lint_pipeline", <<pipeline_name>>,
                  Returned(lint_pipeline(pipeline_name)))
        /\ UNCHANGED stdout

LintTrigger ==
    /\ pc = "idle"
    /\ \E trigger_name \in TriggerNames, trigger_type \in TriggerTypes :
        /\ Finish("lint_trigger", <<trigger_name, trigger_type>>,
                  Returned(lint_trigger(trigger_name, trigger_type)))
        /\ UNCHANGED stdout

LintKeyVault ==
    /\ pc = "idle"
    /\ \E kv_name \in KeyVaultNames, kv_type \in KeyVaultTypes :
        /\ Finish("lint_key_vault", <<kv_name, kv_type>>,
                  Returned(lint_key_vault(kv_name, kv_type)))
        /\ UNCHANGED stdout

IdentifyAdfResource ==
    /\ pc = "idle"
    /\ \E resource_json \in Documents :
        /\ Finish("identify_adf_resource", <<resource_json>>,
                  identify_adf_resource(resource_json))
        /\ UNCHANGED stdout

LintResource ==
    /\ pc = "idle"
    /\ \E resource_json \in Documents :
        /\ Finish("lint_resource", <<resource_json>>, lint_resource(resource_json))
        \* print(resource_type)
        /\ stdout' = LET resource_type == identify_adf_resource(resource_json)
                     IN  IF resource_type.raised THEN stdout
                         ELSE Append(stdout, resource_type.value)

Next ==
    \/ LintLinkedService
    \/ LintDataset
    \/ LintPipeline
    \/ LintTrigger
    \/ LintKeyVault
    \/ IdentifyAdfResource
    \/ LintResource

Spec == Init /\ [][Next]_vars

(***************************************************************************)
(* Properties.                                                             *)
(***************************************************************************)
Called(fn) == pc = "done" /\ call.fn = fn

\* the rules of a list of violations, in order
Rules(v) == [i \in 1..Len(v) |-> v[i].rule]

HasRule(v, r) == \E i \in 1..Len(v) : v[i].rule = r

\* the document's "type" is a string that ends, ignoring case, with suffix
TypeEndsWithCI(doc, suffix) ==
    /\ doc.type.kind = "str"
    /\ Len(suffix) <= Len(doc.type.s)
    /\ \A i \in 1..Len(suffix) :
          LowerChar(doc.type.s[Len(doc.type.s) - Len(suffix) + i]) = suffix[i]

\* the document's "properties" is an object with key k
HasKey(doc, k) == doc.properties.kind = "dict" /\ k \in doc.properties.keys

\* the classification rules in their fixed order, with the final fallback
ClassifierRules(doc) ==
    << <<TypeEndsWithCI(doc, S_pipelines), "Pipeline">>,
       <<TypeEndsWithCI(doc, S_datasets), "Dataset">>,
       <<TypeEndsWithCI(doc, S_linkedservices), "LinkedService">>,
       <<TypeEndsWithCI(doc, S_triggers), "Trigger">>,
       <<HasKey(doc, K_activities), "Pipeline">>,
       <<HasKey(doc, K_typeProperties) /\ HasKey(doc, K_linkedServiceName), "Dataset">>,
       <<HasKey(doc, K_connectVia) /\ HasKey(doc, K_type), "LinkedService">>,
       <<HasKey(doc, K_pipelines) /\ HasKey(doc, K_type), "Trigger">>,
       <<TRUE, "Unknown">> >>

FirstMatch(doc) ==
    LET rules == ClassifierRules(doc)
        first == CHOOSE i \in 1..Len(rules) :
                     rules[i][1] /\ \A j \in 1..(i - 1) : ~rules[j][1]
    IN  rules[first][2]

\* the document lacks a field that the evaluator of its kind reads
LacksRequiredField(doc, kind) ==
    \/ doc.name.kind = "absent"
    \/ /\ kind \in {"Dataset", "Trigger"}
       /\ \/ doc.properties.kind = "absent"
          \/ doc.properties.kind = "dict" /\ K_type \notin doc.properties.keys

\* C1: lint_resource never raises on a document classified as Pipeline,
\* Dataset, LinkedService or Trigger that lacks 'name' (or, for Dataset and
\* Trigger, 'properties' or 'properties.type'): it returns exactly one
\* 'malformed resource' violation.
C1_MalformedResourceIsOneViolation ==
    Called("lint_resource") =>
        LET doc == call.args[1]
            kind == identify_adf_resource(doc)
        IN  (/\ ~kind.raised
             /\ kind.value \in ADFResourceType \ {"Unknown"}
             /\ LacksRequiredField(doc, kind.value))
            => (~result.raised /\ Rules(result.value) = <<"malformed_resource">>)

\* C2: identify_adf_resource returns the kind of the first matching rule in
\* the fixed order (the four case-insensitive type suffixes, then the four
\* structural rules on the keys of 'properties'); a type suffix decides the
\* kind whatever 'properties' is.
C2_FirstMatchingRuleWins ==
    Called("identify_adf_resource") =>
        LET doc == call.args[1]
        IN  /\ \A i \in 1..4 :
                  ClassifierRules(doc)[i][1]
                  => result = Returned(ClassifierRules(doc)[i][2])
            /\ (doc.type.kind \in {"absent", "str"}
                /\ doc.properties.kind \in {"absent", "dict"})
               => result = Returned(FirstMatch(doc))

\* a mixed-case '/Pipelines' type wins over the keys of a dataset
C2_Witness ==
    /\ Called("identify_adf_resource")
    /\ TypeEndsWithCI(call.args[1], S_pipelines)
    /\ ~EndsWith(call.args[1].type.s, S_pipelines)
    /\ HasKey(call.args[1], K_typeProperties)
    /\ HasKey(call.args[1], K_linkedServiceName)
    /\ result = Returned("Pipeline")

\* C3: identify_adf_resource never fails: for every document, also one whose
\* 'type' or 'properties' is absent or of another shape, it returns one of
\* the five kinds, and Unknown exactly when no rule matches.
C3_ClassifierNeverFails ==
    Called("identify_adf_resource") =>
        /\ ~result.raised
        /\ result.value \in ADFResourceType
        /\ result.value = "Unknown" <=> FirstMatch(call.args[1]) = "Unknown"

\* the name with one final newline removed, where Python's `$` also matches
Core(s) == IF Len(s) > 0 /\ s[Len(s)] = NL THEN SubSeq(s, 1, Len(s) - 1) ELSE s

\* ddd_00_Master_w with w one or more of [A-Za-z0-9_]
IsMasterName(s) ==
    \E c \in {s, Core(s)} :
        /\ Len(c) >= 15
        /\ \A i \in 1..3 : c[i] \in Digits
        /\ SubSeq(c, 4, 14) = S_00_Master \o <<"_">>
        /\ \A i \in 15..Len(c) : IsWord(c[i])

\* ddd_gg_w with gg in 01..99 and w one or more of [A-Za-z0-9_]
IsSubName(s) ==
    \E c \in {s, Core(s)} :
        /\ Len(c) >= 8
        /\ \A i \in {1, 2, 3, 5, 6} : c[i] \in Digits
        /\ c[4] = "_" /\ c[7] = "_"
        /\ <<c[5], c[6]>> # <<"0", "0">>
        /\ \A i \in 8..Len(c) : IsWord(c[i])

\* C4: lint_pipeline returns 0 or 1 violations: none for a name matching the
\* master pattern; for a name matching the sub pattern one exactly when the
\* name contains 'Master'; exactly one for a name matching neither pattern.
\* A name matches as re.match matches it.
C4_PipelineViolations ==
    Called("lint_pipeline") =>
        LET name == call.args[1]
            errors == result.value
        IN  /\ ~result.raised
            /\ Len(errors) <= 1
            /\ IsMasterName(name) => errors = <<>>
            /\ IsSubName(name) =>
                  Rules(errors) = IF Contains(name, S_Master)
                                  THEN <<"sub_has_master">> ELSE <<>>
            /\ (~IsMasterName(name) /\ ~IsSubName(name))
               => Rules(errors) = <<"pipeline_convention">>

\* a sub-pipeline name that says Master
C4_Witness ==
    /\ Called("lint_pipeline")
    /\ IsSubName(call.args[1])
    /\ Contains(call.args[1], S_Master)
    /\ Rules(result.value) = <<"sub_has_master">>

\* a non-empty string of uppercase letters, digits and underscores
IsUpperDetail(s) == Len(s) >= 1 /\ \A i \in 1..Len(s) : IsUpperWord(s[i])

\* C5: lint_dataset evaluates its three checks independently: in this order
\* the prefix violation iff the name does not start with 'DS_', the suffix
\* violation iff the format is in FORMAT_MAPPING and the name does not end
\* with '_<suffix>', the detail violation iff the detail segment is not a
\* non-empty string of uppercase letters, digits and underscores.
C5_DatasetChecks ==
    Called("lint_dataset") =>
        LET name == call.args[1]
            fmt == DictGet(FORMAT_MAPPING, call.args[2])
            toks == Split(name, "_")
            detail == Join(SubSeq(toks, 3, Len(toks) - 1), "_")
            prefix == IF Len(name) < 3 \/ <<name[1], name[2], name[3]>> # S_DS_ THEN <<"ds_prefix">> ELSE <<>>
            suffix == IF fmt.found /\ ~EndsWith(name, <<"_">> \o fmt.value)
                      THEN <<"ds_suffix">> ELSE <<>>
            det == IF ~IsUpperDetail(detail) THEN <<"ds_detail">> ELSE <<>>
        IN  /\ ~result.raised
            /\ Rules(result.value) = prefix \o suffix \o det
            /\ (name = S_Example_DS /\ call.args[2] = S_DelimitedText)
               => result.value = <<>>
            /\ Len(toks) < 4 => HasRule(result.value, "ds_detail")

\* C6: lint_linked_service('LS_ADLS_LZ_ONPREMIR') returns no violations when
\* 'ADLS' is an approved LinkedService abbreviation, and exactly the
\* known-prefix violation when 'ADLS' is not.
C6_ExampleLinkedService ==
    (Called("lint_linked_service") /\ call.args[1] = S_Example_LS) =>
        Rules(result.value) = IF S_ADLS \in ABBREVIATIONS.LinkedService
                              THEN <<>> ELSE <<"ls_known_prefix">>

\* number of '-'-delimited tokens of a name
TokenCount(s) == Cardinality({i \in 1..Len(s) : s[i] = "-"}) + 1

\* the text before the first '-' (the whole name when there is none)
FirstToken(s) ==
    IF \A i \in 1..Len(s) : s[i] # "-" THEN s
    ELSE SubSeq(s, 1, (CHOOSE i \in 1..Len(s) :
                          s[i] = "-" /\ \A j \in 1..(i - 1) : s[j] # "-") - 1)

FrequencyNames == {S_Daily, S_Hourly, S_Weekly, S_Monthly}

\* no token of the name is empty
NoEmptyToken(s) ==
    /\ Len(s) > 0 /\ s[1] # "-" /\ s[Len(s)] # "-"
    /\ \A i \in 1..(Len(s) - 1) : ~(s[i] = "-" /\ s[i + 1] = "-")

\* letters and digits
IsAlnum(c) == c \in Uppers \cup Lowers \cup Digits

\* made only of letters, digits and '-'
IsPlainTriggerName(s) == \A i \in 1..Len(s) : IsAlnum(s[i]) \/ s[i] = "-"

\* C7 as stated: for every trigger name without '-' and every trigger type,
\* lint_trigger returns exactly one violation, the 'not properly formatted'
\* one.
C7_SingleTokenOneViolation ==
    (Called("lint_trigger") /\ TokenCount(call.args[1]) < 2) =>
        Rules(result.value) = <<"trigger_not_formatted">>

\* C7 amended: for every trigger name without '-', the result ends with the
\* 'not properly formatted' violation and has no pattern violation; it is
\* preceded by the frequency violation when the type is 'ScheduleTrigger', by
\* the 'File-' violation when the type is 'BlobEventsTrigger', and by nothing
\* for every other type.
C7_SingleTokenNotFormatted ==
    (Called("lint_trigger") /\ TokenCount(call.args[1]) < 2) =>
        /\ ~result.raised
        /\ Rules(result.value) =
              (IF call.args[2] = S_ScheduleTrigger THEN <<"trigger_frequency">>
               ELSE IF call.args[2] = S_BlobEventsTrigger THEN <<"trigger_file">>
               ELSE <<>>) \o <<"trigger_not_formatted">>

\* a schedule trigger whose name has no '-' gets two violations
C7_Witness ==
    /\ Called("lint_trigger")
    /\ TokenCount(call.args[1]) = 1
    /\ Len(call.args[1]) > 0
    /\ call.args[2] = S_ScheduleTrigger
    /\ Rules(result.value) = <<"trigger_frequency", "trigger_not_formatted">>

\* a schedule trigger named <frequency>-<token>, the token not empty
IsFrequencyAndOneToken ==
    /\ Called("lint_trigger")
    /\ call.args[2] = S_ScheduleTrigger
    /\ TokenCount(call.args[1]) = 2
    /\ FirstToken(call.args[1]) \in FrequencyNames
    /\ Len(call.args[1]) > Len(FirstToken(call.args[1])) + 1
    /\ IsPlainTriggerName(call.args[1])

\* C8 as stated: for a schedule trigger named <frequency>-<token>,
\* lint_trigger returns exactly the 'not properly formatted' violation.
C8_TwoTokensNotFormatted ==
    IsFrequencyAndOneToken => Rules(result.value) = <<"trigger_not_formatted">>

\* C8 amended: for a schedule trigger named <frequency>-<token>, the token of
\* letters and digits, lint_trigger returns exactly one violation, the 'does
\* not match required pattern' one.
C8_TwoTokensPatternViolation ==
    IsFrequencyAndOneToken => Rules(result.value) = <<"trigger_pattern">>

\* Monthly-<token> as a schedule trigger
C8_Witness ==
    /\ IsFrequencyAndOneToken
    /\ FirstToken(call.args[1]) = S_Monthly
    /\ Rules(result.value) = <<"trigger_pattern">>

\* C9 as stated: the pattern check of lint_trigger produces its violation
\* only for names with extra tokens between project and pipeline (4 tokens
\* or more), and never for a name with exactly 3 tokens.
C9_PatternOnlyExtraSegments ==
    Called("lint_trigger") =>
        /\ HasRule(result.value, "trigger_pattern") => TokenCount(call.args[1]) >= 4
        /\ TokenCount(call.args[1]) = 3 => ~HasRule(result.value, "trigger_pattern")

\* C9 amended: for names of letters, digits and '-', the pattern check adds
\* no violation for a name with exactly 3 tokens whose first token is one of
\* Daily, Hourly, Weekly, Monthly, File, and produces its violation for every
\* other name with at least 2 tokens (2 tokens, 4 tokens or more, or another
\* first token); it is not reached for a name with 1 token.
C9_PatternViolationCases ==
    (Called("lint_trigger") /\ IsPlainTriggerName(call.args[1])) =>
        (HasRule(result.value, "trigger_pattern")
         <=> /\ TokenCount(call.args[1]) >= 2
             /\ ~(/\ TokenCount(call.args[1]) = 3
                  /\ FirstToken(call.args[1]) \in FrequencyNames \cup {S_File}))

\* three tokens, the first not one of the five: the check fires
C9_Witness ==
    /\ Called("lint_trigger")
    /\ IsPlainTriggerName(call.args[1])
    /\ TokenCount(call.args[1]) = 3
    /\ NoEmptyToken(call.args[1])
    /\ FirstToken(call.args[1]) \notin FrequencyNames \cup {S_File}
    /\ HasRule(result.value, "trigger_pattern")

\* the first token suits the trigger type
CompatibleHead(name, type) ==
    IF type = S_ScheduleTrigger THEN FirstToken(name) \in FrequencyNames
    ELSE IF type = S_BlobEventsTrigger THEN FirstToken(name) = S_File
    ELSE FirstToken(name) \in FrequencyNames \cup {S_File}

\* C10: for names of letters, digits and '-', lint_trigger returns no
\* violations iff the name has exactly 3 tokens and its first token is one of
\* the five and suits the type; otherwise it returns 1 or 2 violations.
C10_TriggerAccepted ==
    (Called("lint_trigger") /\ IsPlainTriggerName(call.args[1])) =>
        /\ ~result.raised
        /\ result.value = <<>>
           <=> (TokenCount(call.args[1]) = 3
                /\ CompatibleHead(call.args[1], call.args[2]))
        /\ Len(result.value) <= 2

\* a monthly schedule trigger with project and pipeline passes
C10_Witness ==
    /\ Called("lint_trigger")
    /\ call.args[2] = S_ScheduleTrigger
    /\ TokenCount(call.args[1]) = 3
    /\ NoEmptyToken(call.args[1])
    /\ FirstToken(call.args[1]) = S_Monthly
    /\ result.value = <<>>

====
